---- MODULE Spec2Model ----
(***************************************************************************)
(* Model of esp_detector.py: the detection step detect_and_draw_esp, the   *)
(* pipeline process_video, the console entry point main and the GUI class  *)
(* ESPDetectorGUI with its worker thread and its main-loop callbacks.      *)
(*                                                                         *)
(* Paths are sequences of tokens: "/" is the separator, " " is white       *)
(* space, every other token is a separator-free piece of a name.           *)
(* Confidences are integers in hundredths (50 is 0.5).                     *)
(***************************************************************************)
EXTENDS Integers, Sequences, FiniteSets, TLC

\* ------------------------------------------------------------------ bounds
MaxThreads == 2
MaxFrames == 2
MaxDet == 2
MaxRead == 60
MaxTotal == 60

\* ------------------------------------------------------- program constants
\* confidence_threshold = 0.5, in hundredths
confidence_threshold == 50
\* if frame_count % 30 == 0
ProgressEvery == 30

VARIABLES
    mode,              \* "cli" when len(sys.argv) == 2, else "gui"
    cli_pc,            \* position of main() in console mode
    printed,           \* messages main() printed itself
    files,             \* paths that exist in the file system
    input_file,        \* ESPDetectorGUI.input_file ("" is <<>>)
    output_file,       \* ESPDetectorGUI.output_file
    processing,        \* ESPDetectorGUI.processing
    process_btn,       \* state of the start button
    open_output_btn,   \* state of the "open result" button
    progress_bar,      \* value of the progress bar, in percent
    status,            \* text of the status line
    browse_filename,   \* local `filename` of a browse_file that is under way
    dialog,            \* the message box the last handler of the main thread showed
    opened_dir,        \* the directory the last handler of the main thread opened
    afterq,            \* callbacks queued with root.after(0, ...)
    run,               \* one record per execution of process_video
    last_report,       \* what the message box of processing_finished reports
    last_op,           \* what the last call of start_processing did
    det_pc,            \* position of detect_and_draw_esp
    boxes,             \* the detections the model returned for the frame
    box_i,             \* index of the next detection to handle
    drawn,             \* labels drawn on the frame, with the index of their box
    detected_classes,  \* the list detect_and_draw_esp returns
    prog_pc,           \* position of the frame loop whose progress is followed
    frame_count,       \* frames written so far in that loop
    total_frames,      \* int(cap.get(cv2.CAP_PROP_FRAME_COUNT))
    reports            \* the progress values reported so far, as exact fractions

guivars == <<input_file, output_file, processing, process_btn, open_output_btn,
             progress_bar, status, browse_filename, dialog, opened_dir, afterq,
             last_report>>
clivars == <<cli_pc, printed>>
detvars == <<det_pc, boxes, box_i, drawn, detected_classes>>
progvars == <<prog_pc, frame_count, total_frames, reports>>
vars == <<mode, clivars, files, guivars, run, last_op, detvars, progvars>>

RunIds == 1..MaxThreads

\* ------------------------------------------------------------------- paths
Sep == "/"
Blank == " "
NoPath == <<>>

\* the paths the file dialog can return: one without and one with a directory
InputPaths == { <<"v">>, <<"d", "/", "v">> }
\* the paths the command line can name: those, and one in the root directory
CliPaths == InputPaths \cup { <<"/", "v">> }
\* sys.argv[1]: one of them, or one of them wrapped in white space
Args == CliPaths \cup { <<" ", "v", " ">> }

\* str.strip(): leading and trailing white space removed
RECURSIVE LStrip(_)
LStrip(s) == IF s # <<>> /\ Head(s) = Blank THEN LStrip(Tail(s)) ELSE s
RECURSIVE RStrip(_)
RStrip(s) ==
    IF s # <<>> /\ s[Len(s)] = Blank THEN RStrip(SubSeq(s, 1, Len(s) - 1)) ELSE s
Strip(s) == RStrip(LStrip(s))

\* index of the last separator of p, 0 when there is none
LastSep(p) ==
    LET S == { i \in 1..Len(p) : p[i] = Sep }
    IN IF S = {} THEN 0 ELSE CHOOSE i \in S : \A j \in S : j <= i

RECURSIVE RStripSep(_)
RStripSep(s) ==
    IF s # <<>> /\ s[Len(s)] = Sep THEN RStripSep(SubSeq(s, 1, Len(s) - 1)) ELSE s

\* os.path.dirname: everything up to the last separator, trailing separators
\* removed unless the head consists of separators only
Dirname(p) ==
    LET head == SubSeq(p, 1, LastSep(p))
    IN IF head # <<>> /\ (\E i \in 1..Len(head) : head[i] # Sep)
       THEN RStripSep(head)
       ELSE head

\* os.path.join(a, b) for a non-empty a
Join(a, b) ==
    IF b # <<>> /\ Head(b) = Sep THEN b
    ELSE IF a = <<>> \/ a[Len(a)] = Sep THEN a \o b
    ELSE a \o <<Sep>> \o b

\* video_dir = os.path.dirname(path) or "."  ;  os.path.join(video_dir, "out.mp4")
OutputPathFor(p) ==
    LET d == Dirname(p)
        video_dir == IF d = <<>> THEN <<".">> ELSE d
    IN Join(video_dir, <<"out.mp4">>)

\* the existence mutant: the check is missing
Exists_Always(p) == TRUE

\* os.path.exists
Exists(p) == p \in files

\* ------------------------------------------------------ detect_and_draw_esp
\* model.names / result.names: class id -> class name
ModelNames == [c \in {0, 1} |-> IF c = 0 THEN "person" ELSE "sports_ball"]

\* class_name.replace('_', ' ').title()
TitleOf(name) == IF name = "person" THEN "Person" ELSE "Sports Ball"

\* target_classes: every class name of the model, mapped to its label
target_classes ==
    [name \in { ModelNames[c] : c \in DOMAIN ModelNames } |-> TitleOf(name)]

\* confidences the model can report, in hundredths
Confs == {0, 49, 50, 51, 100}
Boxes == [cls : DOMAIN ModelNames, conf : Confs]
BoxSeqs == UNION { [1..n -> Boxes] : n \in 0..MaxDet }

\* the drawing mutant: the threshold compared with >= instead of >
ShouldDraw_AtLeast(class_name, conf) ==
    class_name \in DOMAIN target_classes /\ conf >= confidence_threshold

\* if class_name in target_classes and conf > confidence_threshold
ShouldDraw(class_name, conf) ==
    class_name \in DOMAIN target_classes /\ conf > confidence_threshold

\* one iteration of `for box in boxes`
DetectBox ==
    /\ det_pc = "loop"
    /\ box_i <= Len(boxes)
    /\ LET box == boxes[box_i]
           class_name == ModelNames[box.cls]
       IN /\ detected_classes' =
                 Append(detected_classes, [name |-> class_name, conf |-> box.conf])
          /\ drawn' = IF ShouldDraw(class_name, box.conf)
                      THEN Append(drawn, [box |-> box_i,
                                          label |-> target_classes[class_name]])
                      ELSE drawn
    /\ box_i' = box_i + 1
    /\ UNCHANGED <<det_pc, boxes>>

\* return frame, detected_classes
DetectReturn ==
    /\ det_pc = "loop"
    /\ box_i > Len(boxes)
    /\ det_pc' = "returned"
    /\ UNCHANGED <<boxes, box_i, drawn, detected_classes>>

\* the detection variables while no frame is modelled box by box
DetectOff ==
    /\ det_pc = "off"
    /\ boxes = <<>>
    /\ box_i = 1
    /\ drawn = <<>>
    /\ detected_classes = <<>>

\* ------------------------------------------------------------ process_video
\* the record of a run slot that holds no run
NoRun ==
    [pc |-> "none", video_path |-> NoPath, output_path |-> NoPath,
     acc_in |-> NoPath, acc_out |-> NoPath, in_existed |-> FALSE,
     cap |-> "none", out |-> "none", temp |-> "none", unlink_tried |-> FALSE,
     frame_count |-> 0, enc |-> "none", encoder_calls |-> 0, copies |-> 0,
     wrote |-> "nothing", log |-> {}, raised_at |-> "none"]

\* a call process_video(video_path, output_path) about to execute its first line
EnterRun(video_path, output_path, acc_in, acc_out) ==
    [NoRun EXCEPT !.pc = "start", !.video_path = video_path,
                  !.output_path = output_path,
                  !.acc_in = acc_in, !.acc_out = acc_out]

Logged(rec, msgs) == [rec EXCEPT !.log = @ \cup msgs]

\* lines 63-98: load the model, open the capture, create the temporary file and
\* the writer.  Loading may raise; the capture opens only on a file that exists.
PVStart(r) ==
    /\ run[r].pc = "start"
    /\ LET rec == [run[r] EXCEPT !.in_existed = Exists(run[r].video_path)]
       IN \/ run' = [run EXCEPT ![r] =
                        [Logged(rec, {"loading"}) EXCEPT
                            !.pc = "raised", !.raised_at = "load"]]
          \/ run' = [run EXCEPT ![r] =
                        [Logged(rec, {"loading", "open_error"}) EXCEPT
                            !.cap = "failed", !.pc = "returned"]]
          \/ /\ Exists(rec.video_path)
             /\ run' = [run EXCEPT ![r] =
                           [Logged(rec, {"loading", "frames"}) EXCEPT
                               !.cap = "open", !.temp = "exists", !.out = "open",
                               !.frame_count = 0, !.pc = "loop"]]
    /\ UNCHANGED files

\* lines 100-123: one pass of the frame loop: the capture is exhausted, or a frame
\* is read, processed and written, or processing it raises
PVFrame(r) ==
    /\ run[r].pc = "loop"
    /\ \/ run' = [run EXCEPT ![r].pc = "release"]
       \/ /\ run[r].frame_count < MaxFrames
          /\ run' = [run EXCEPT ![r].frame_count = @ + 1]
       \/ /\ run[r].frame_count < MaxFrames
          /\ run' = [run EXCEPT ![r].pc = "raised", ![r].raised_at = "loop"]
    /\ UNCHANGED files

\* the release mutant: the writer is left open
Released_CapOnly(rec) == [rec EXCEPT !.cap = "released"]

\* cap.release(); out.release()
Released(rec) == [rec EXCEPT !.cap = "released", !.out = "released"]

\* lines 125-127
PVRelease(r) ==
    /\ run[r].pc = "release"
    /\ run' = [run EXCEPT ![r] = [Released(run[r]) EXCEPT !.pc = "merge"]]
    /\ UNCHANGED files

\* the exit codes the encoder can return
ReturnCodes == {0, 1}

\* the exit-code mutant: every exit code is taken for success
EncoderSucceeded_Always(returncode) == TRUE

\* if result.returncode == 0
EncoderSucceeded(returncode) == returncode = 0

\* the file a run has put at its output path, if any
Output(rec) == IF rec.wrote = "nothing" THEN {} ELSE {rec.output_path}

\* lines 130-159 and 163-168: the encoder is looked up and, when present, run
\* once; it raises, or it returns an exit code, having written the muxed output
\* when that code is 0
PVMerge(r) ==
    /\ run[r].pc = "merge"
    /\ LET rec == Logged(run[r], {"merge_start"})
           called == [rec EXCEPT !.encoder_calls = @ + 1]
       IN \/ run' = [run EXCEPT ![r] =
                        [called EXCEPT !.enc = "raised", !.pc = "except"]]
          \/ \E returncode \in ReturnCodes :
                LET ran == IF returncode = 0
                           THEN [called EXCEPT !.enc = "rc0", !.wrote = "muxed"]
                           ELSE [called EXCEPT !.enc = "rcfail"]
                IN run' = [run EXCEPT ![r] =
                              IF EncoderSucceeded(returncode)
                              THEN [Logged(ran, {"ffmpeg_ok"}) EXCEPT
                                       !.pc = "unlink"]
                              ELSE [Logged(ran, {"ffmpeg_error"}) EXCEPT
                                       !.pc = "copy"]]
          \/ run' = [run EXCEPT ![r] =
                        [Logged(rec, {"ffmpeg_missing"}) EXCEPT
                            !.enc = "absent", !.pc = "copy"]]
    /\ files' = files \cup Output(run'[r])

\* the copy mutant: the fallback copies nothing
CopyTemp_Nothing(rec) == rec

\* shutil.copy2(temp_video_path, output_path) returned
CopyTemp(rec) == [rec EXCEPT !.wrote = "silent", !.copies = @ + 1]

\* lines 160-162 and 169-170: the fallback copy inside the try block
PVCopy(r) ==
    /\ run[r].pc = "copy"
    /\ \/ run' = [run EXCEPT ![r] = [CopyTemp(run[r]) EXCEPT !.pc = "unlink"]]
       \/ run' = [run EXCEPT ![r].pc = "except"]
    /\ files' = files \cup Output(run'[r])

\* lines 172-185: the handler logs, copies again and logs; a copy that raises
\* here leaves process_video
PVExcept(r) ==
    /\ run[r].pc = "except"
    /\ LET rec == Logged(run[r], {"merge_exception"})
       IN \/ run' = [run EXCEPT ![r] =
                        [Logged(CopyTemp(rec), {"fallback_saved"}) EXCEPT
                            !.pc = "unlink"]]
          \/ run' = [run EXCEPT ![r] =
                        [rec EXCEPT !.pc = "raised", !.raised_at = "copy"]]
    /\ files' = files \cup Output(run'[r])

\* lines 187-197: os.unlink in a try whose handler passes, then the final message
PVUnlink(r) ==
    /\ run[r].pc = "unlink"
    /\ \E t \in {"removed", "exists"} :
          run' = [run EXCEPT ![r] =
                     [Logged(run[r], {"done"}) EXCEPT
                         !.unlink_tried = TRUE, !.temp = t, !.pc = "returned"]]
    /\ UNCHANGED files

\* one step of process_video in run r
ProcessVideo(r) ==
    /\ \/ PVStart(r)
       \/ PVFrame(r)
       \/ PVRelease(r)
       \/ PVMerge(r)
       \/ PVCopy(r)
       \/ PVExcept(r)
       \/ PVUnlink(r)
    /\ UNCHANGED <<mode, clivars, guivars, last_op, detvars, progvars>>

\* ------------------------------------ process_video: the progress reports
\* the frame counts the capture can report: none, fewer than the frames it
\* delivers, or more
TotalCounts == 0..MaxTotal

\* if frame_count % 30 == 0
ReportsAt(count) == count % ProgressEvery = 0

\* progress = (frame_count / total_frames) * 100, as the exact fraction num/den
ProgressOf(count, total) == [at |-> count, num |-> count * 100, den |-> total]

\* lines 101-123 for a frame that is read: it is written and counted, and every
\* ProgressEvery frames the progress is computed, which raises ZeroDivisionError
\* when total_frames is 0, and handed to progress_callback and the log
ProgressFrame ==
    /\ prog_pc = "loop"
    /\ frame_count < MaxRead
    /\ frame_count' = frame_count + 1
    /\ IF ~ReportsAt(frame_count')
       THEN UNCHANGED <<prog_pc, reports>>
       ELSE IF total_frames = 0
            THEN prog_pc' = "raised" /\ UNCHANGED reports
            ELSE /\ reports' = Append(reports, ProgressOf(frame_count', total_frames))
                 /\ UNCHANGED prog_pc
    /\ UNCHANGED total_frames

\* lines 101-103: cap.read() returns no frame and the loop is left
ProgressEnd ==
    /\ prog_pc = "loop"
    /\ prog_pc' = "done"
    /\ UNCHANGED <<frame_count, total_frames, reports>>

\* the progress variables while no frame loop is followed report by report
ProgressOff ==
    /\ prog_pc = "off"
    /\ frame_count = 0
    /\ total_frames = 0
    /\ reports = <<>>

\* --------------------------------------------------------------------- main
\* lines 475-497: strip the argument, check that the file exists, derive the
\* output path and call process_video
CLIMain ==
    /\ mode = "cli"
    /\ cli_pc = "main"
    /\ \E arg \in Args :
          LET video_path == Strip(arg)
              output_path == OutputPathFor(video_path)
          IN IF ~Exists(video_path)
             THEN /\ printed' = printed \cup {"not_found"}
                  /\ cli_pc' = "done"
                  /\ UNCHANGED run
             ELSE /\ printed' = printed \cup {"processing"}
                  /\ cli_pc' = "running"
                  /\ run' = [run EXCEPT ![1] =
                                EnterRun(video_path, output_path,
                                         video_path, output_path)]
    /\ UNCHANGED <<mode, files, guivars, last_op, detvars, progvars>>

\* lines 496-499: process_video returned, or raised and the handler printed
CLIReturn ==
    /\ mode = "cli"
    /\ cli_pc = "running"
    /\ run[1].pc \in {"returned", "raised"}
    /\ printed' = IF run[1].pc = "raised" THEN printed \cup {"error"} ELSE printed
    /\ cli_pc' = "done"
    /\ UNCHANGED <<mode, files, guivars, run, last_op, detvars, progvars>>

\* ----------------------------------------------------------- ESPDetectorGUI
NoReport == [shown |-> NoPath, acc_out |-> NoPath, written |-> NoPath]

\* the main thread is between two handlers
MainIdle == mode = "gui" /\ browse_filename = NoPath

\* a handler of the main thread that shows message box d and opens directory o:
\* the message box and the window of the handler before it are gone
Shows(d, o, rep, op) ==
    /\ dialog' = d
    /\ opened_dir' = o
    /\ last_report' = rep
    /\ last_op' = op

\* lines 346-354: the dialog returns a file name (or nothing) and input_file is
\* set; the worker thread may run before output_file follows
BrowsePick ==
    /\ MainIdle
    /\ \E filename \in InputPaths \cup {NoPath} :
          IF filename = NoPath
          THEN UNCHANGED <<input_file, browse_filename>>
          ELSE /\ input_file' = filename
               /\ browse_filename' = filename
    /\ Shows("none", NoPath, NoReport, "none")
    /\ UNCHANGED <<mode, clivars, files, output_file, processing, process_btn,
                   open_output_btn, progress_bar, status, afterq, run, detvars, progvars>>

\* lines 356-361: output_file is derived from the local file name
BrowseFinish ==
    /\ mode = "gui"
    /\ browse_filename # NoPath
    /\ output_file' = OutputPathFor(browse_filename)
    /\ browse_filename' = NoPath
    /\ UNCHANGED <<mode, clivars, files, input_file, processing, process_btn,
                   open_output_btn, progress_bar, status, dialog, opened_dir,
                   last_report, last_op, afterq, run, detvars, progvars>>

\* the busy-guard mutant: a run in flight is not noticed
StartBusy_Never == FALSE

\* if self.processing: return
StartBusy == processing

\* the run slots that hold no thread
FreeSlots == { r \in RunIds : run[r].pc = "none" }

\* lines 373-398.  The handler is taken as callable whenever the main thread is
\* idle; it does not rely on the start button being disabled.
StartProcessing ==
    /\ MainIdle
    /\ \/ /\ input_file = NoPath
          /\ Shows("error_no_file", NoPath, NoReport, "rejected")
          /\ UNCHANGED <<processing, process_btn, progress_bar, status, run>>
       \/ /\ input_file # NoPath
          /\ ~Exists(input_file)
          /\ Shows("error_not_found", NoPath, NoReport, "rejected")
          /\ UNCHANGED <<processing, process_btn, progress_bar, status, run>>
       \/ /\ input_file # NoPath
          /\ Exists(input_file)
          /\ StartBusy
          /\ Shows("none", NoPath, NoReport, "busy")
          /\ UNCHANGED <<processing, process_btn, progress_bar, status, run>>
       \/ /\ input_file # NoPath
          /\ Exists(input_file)
          /\ ~StartBusy
          /\ FreeSlots # {}
          /\ processing' = TRUE
          /\ process_btn' = "disabled"
          /\ progress_bar' = 0
          /\ status' = "processing"
          /\ LET r == CHOOSE x \in FreeSlots : \A y \in FreeSlots : x <= y
             IN run' = [run EXCEPT ![r] =
                           [NoRun EXCEPT !.pc = "thread_start",
                                         !.acc_in = input_file,
                                         !.acc_out = output_file]]
          /\ Shows("none", NoPath, NoReport, "accepted")
    /\ UNCHANGED <<mode, clivars, files, input_file, output_file, open_output_btn,
                   browse_filename, afterq, detvars, progvars>>

\* lines 402-408: the worker reads self.input_file and self.output_file and
\* calls process_video with them
ThreadBegin(r) ==
    /\ mode = "gui"
    /\ run[r].pc = "thread_start"
    /\ run' = [run EXCEPT ![r] =
                  EnterRun(input_file, output_file, run[r].acc_in, run[r].acc_out)]
    /\ UNCHANGED <<mode, clivars, files, guivars, last_op, detvars, progvars>>

\* what the worker queues when process_video has ended in state pc
CompletionFor(pc) == IF pc = "raised" THEN "error" ELSE "finished"

\* the completion mutant: an exception of process_video ends the thread unreported
Posted_ReturnOnly(q, pc, r) ==
    IF pc = "raised" THEN q ELSE Append(q, [kind |-> "finished", run |-> r])

\* self.root.after(0, ...) in the try block, or in its handler
Posted(q, pc, r) == Append(q, [kind |-> CompletionFor(pc), run |-> r])

\* lines 410-416: root.after(0, processing_finished), or the handler's
\* root.after(0, processing_error); the thread ends and its locals are gone
ThreadEnd(r) ==
    /\ mode = "gui"
    /\ run[r].pc \in {"returned", "raised"}
    /\ afterq' = Posted(afterq, run[r].pc, r)
    /\ run' = [run EXCEPT ![r] =
                  [NoRun EXCEPT !.pc = "posted",
                                !.video_path = run[r].video_path,
                                !.output_path = run[r].output_path,
                                !.acc_in = run[r].acc_in,
                                !.acc_out = run[r].acc_out]]
    /\ UNCHANGED <<mode, clivars, files, input_file, output_file, processing,
                   process_btn, open_output_btn, progress_bar, status,
                   browse_filename, dialog, opened_dir, last_report, last_op,
                   detvars, progvars>>

\* lines 429-445, run by the main loop for a queued root.after callback: the
\* result path shown is self.output_file as it is now
ProcessingFinished ==
    /\ MainIdle
    /\ afterq # <<>>
    /\ Head(afterq).kind = "finished"
    /\ LET r == Head(afterq).run
       IN /\ Shows("info_done", NoPath,
                   [shown |-> output_file, acc_out |-> run[r].acc_out,
                    written |-> run[r].output_path], "none")
          /\ run' = [run EXCEPT ![r] = NoRun]
    /\ afterq' = Tail(afterq)
    /\ processing' = FALSE
    /\ process_btn' = "normal"
    /\ progress_bar' = 100
    /\ status' = "done"
    /\ open_output_btn' = "normal"
    /\ UNCHANGED <<mode, clivars, files, input_file, output_file, browse_filename,
                   detvars, progvars>>

\* lines 447-457, run by the main loop for a queued root.after callback
ProcessingError ==
    /\ MainIdle
    /\ afterq # <<>>
    /\ Head(afterq).kind = "error"
    /\ run' = [run EXCEPT ![Head(afterq).run] = NoRun]
    /\ afterq' = Tail(afterq)
    /\ processing' = FALSE
    /\ process_btn' = "normal"
    /\ status' = "error"
    /\ Shows("error_processing", NoPath, NoReport, "none")
    /\ UNCHANGED <<mode, clivars, files, input_file, output_file, open_output_btn,
                   progress_bar, browse_filename, detvars, progvars>>

\* lines 459-468: the directory of self.output_file is opened when that file
\* exists, else a warning is shown
OpenOutput ==
    /\ MainIdle
    /\ IF output_file # NoPath /\ Exists(output_file)
       THEN Shows("none", Dirname(output_file), NoReport, "none")
       ELSE Shows("warn_no_result", NoPath, NoReport, "none")
    /\ UNCHANGED <<mode, clivars, files, input_file, output_file, processing,
                   process_btn, open_output_btn, progress_bar, status,
                   browse_filename, afterq, run, detvars, progvars>>

\* ------------------------------------------------------------ specification
\* the state in which neither front end has done anything: main's locals and
\* ESPDetectorGUI.__init__ (lines 206-211)
Fresh ==
    /\ cli_pc = "main"
    /\ printed = {}
    /\ input_file = NoPath
    /\ output_file = NoPath
    /\ processing = FALSE
    /\ process_btn = "normal"
    /\ open_output_btn = "disabled"
    /\ progress_bar = 0
    /\ status = "ready"
    /\ browse_filename = NoPath
    /\ dialog = "none"
    /\ opened_dir = NoPath
    /\ afterq = <<>>
    /\ run = [r \in RunIds |-> NoRun]
    /\ last_report = NoReport
    /\ last_op = "none"

\* either front end, on a file system in which any of the nameable paths may exist
Init ==
    /\ mode \in {"cli", "gui"}
    /\ files \in SUBSET (IF mode = "cli" THEN CliPaths ELSE InputPaths)
    /\ Fresh
    /\ DetectOff
    /\ ProgressOff

\* the worker thread of run r
Worker(r) == ThreadBegin(r) \/ (mode = "gui" /\ ProcessVideo(r)) \/ ThreadEnd(r)

\* the main loop running a queued root.after callback
Callback == ProcessingFinished \/ ProcessingError

Next ==
    \/ CLIMain
    \/ CLIReturn
    \/ BrowsePick
    \/ BrowseFinish
    \/ StartProcessing
    \/ OpenOutput
    \/ ProcessingFinished
    \/ ProcessingError
    \/ \E r \in RunIds : ThreadBegin(r)
    \/ \E r \in RunIds : ProcessVideo(r)
    \/ \E r \in RunIds : ThreadEnd(r)

Spec == Init /\ [][Next]_vars

\* the worker thread keeps being scheduled, a handler that has started runs to
\* its end, and the main loop, which returns to its queue after every handler,
\* runs a queued callback however many other handlers it serves in between
FairSpec ==
    /\ Spec
    /\ \A r \in RunIds : WF_vars(Worker(r))
    /\ WF_vars(BrowseFinish)
    /\ SF_vars(Callback)

\* detect_and_draw_esp on every list of up to MaxDet detections
InitDetect ==
    /\ mode = "gui"
    /\ files = {}
    /\ Fresh
    /\ det_pc = "loop"
    /\ boxes \in BoxSeqs
    /\ box_i = 1
    /\ drawn = <<>>
    /\ detected_classes = <<>>
    /\ ProgressOff

NextDetect ==
    \/ DetectBox
          /\ UNCHANGED <<mode, clivars, files, guivars, run, last_op, progvars>>
    \/ DetectReturn
          /\ UNCHANGED <<mode, clivars, files, guivars, run, last_op, progvars>>

SpecDetect == InitDetect /\ [][NextDetect]_vars

\* the frame loop of process_video (lines 92-123) for every frame count the
\* capture can report and every number of frames up to MaxRead it can deliver
InitProgress ==
    /\ mode = "gui"
    /\ files = {}
    /\ Fresh
    /\ DetectOff
    /\ prog_pc = "loop"
    /\ frame_count = 0
    /\ total_frames \in TotalCounts
    /\ reports = <<>>

NextProgress ==
    \/ ProgressFrame
          /\ UNCHANGED <<mode, clivars, files, guivars, run, last_op, detvars>>
    \/ ProgressEnd
          /\ UNCHANGED <<mode, clivars, files, guivars, run, last_op, detvars>>

SpecProgress == InitProgress /\ [][NextProgress]_vars

\* ------------------------------------------------------------------ claims
\* process_video has ended in run r, by returning or by raising
Ended(r) == run[r].pc \in {"returned", "raised"}

\* run r got as far as the merge step
ReachedMerge(r) == run[r].enc # "none"

\* C1, as stated, for the runs that end by returning (a run that ends by raising
\* before the merge step leaves no output either): whenever a run of
\* process_video on an input file that exists has returned, the output file
\* exists.
C1_OutputAlwaysExists ==
    \A r \in RunIds :
        (run[r].pc = "returned" /\ run[r].in_existed) =>
            run[r].output_path \in files

\* C1, amended: a run that opened the video and returned has written its output
\* file, which exists, whatever the encoder did; a run that could not open the
\* video has returned without creating a temporary file or writing an output.
C1_OutputAfterReturn ==
    \A r \in RunIds :
        run[r].pc = "returned" =>
            IF run[r].cap = "failed"
            THEN run[r].wrote = "nothing" /\ run[r].temp = "none"
            ELSE /\ run[r].wrote \in {"muxed", "silent"}
                 /\ run[r].output_path \in files

\* a run on an existing file returned with the silent copy after the encoder failed
C1_Witness ==
    \E r \in RunIds :
        /\ run[r].pc = "returned"
        /\ run[r].in_existed
        /\ run[r].enc = "rcfail"
        /\ run[r].wrote = "silent"
        /\ run[r].output_path \in files

\* the message process_video logs for each way the encoder can fail
FailureLogged(r) ==
    /\ run[r].enc = "absent" => "ffmpeg_missing" \in run[r].log
    /\ run[r].enc = "rcfail" => "ffmpeg_error" \in run[r].log
    /\ run[r].enc = "raised" => "merge_exception" \in run[r].log

\* C2, as stated: once a run that reached the merge step has ended, the output
\* is the silent copy, with a message logged, whenever the encoder was absent,
\* exited non-zero or the step raised, and it is the muxed file only if the
\* encoder exited 0.
C2_FallbackAlwaysWritten ==
    \A r \in RunIds :
        (Ended(r) /\ ReachedMerge(r)) =>
            /\ run[r].enc # "rc0" => (run[r].wrote = "silent" /\ FailureLogged(r))
            /\ run[r].wrote = "muxed" => run[r].enc = "rc0"

\* C2, amended: as stated, except that the silent copy is the output only when a
\* copy succeeded: a copy that raises in the try block is repeated once by the
\* handler, and when that one raises too process_video ends by raising, with the
\* failure logged and no output written.
C2_FallbackUnlessCopyRaises ==
    \A r \in RunIds :
        (Ended(r) /\ ReachedMerge(r)) =>
            /\ run[r].enc # "rc0" =>
                  /\ FailureLogged(r)
                  /\ run[r].pc = "returned" =>
                        (run[r].wrote = "silent" /\ run[r].copies = 1)
                  /\ run[r].pc = "raised" =>
                        /\ run[r].raised_at = "copy"
                        /\ "merge_exception" \in run[r].log
                        /\ run[r].wrote = "nothing"
            /\ run[r].enc = "rc0" => (run[r].pc = "returned" /\ run[r].wrote = "muxed")
            /\ run[r].wrote = "muxed" => run[r].enc = "rc0"

\* the encoder exited non-zero, the copy in the try block raised and the copy of
\* the handler succeeded
C2_Witness ==
    \E r \in RunIds :
        /\ run[r].pc = "returned"
        /\ run[r].enc = "rcfail"
        /\ "merge_exception" \in run[r].log
        /\ run[r].wrote = "silent"

\* C3, as stated: every run that created the temporary file has removed it, or
\* tried to, by the time it ends, by returning or by raising.
C3_TempRemovedAtEnd ==
    \A r \in RunIds :
        (Ended(r) /\ run[r].temp # "none") => run[r].unlink_tried

\* the threads that have been started and have not yet queued their completion
Live == { r \in RunIds : run[r].pc \notin {"none", "posted"} }

\* the fields and widgets of the GUI object, and its threads
guistate == <<input_file, output_file, processing, process_btn, open_output_btn,
              progress_bar, status, afterq, run, files>>

\* C4: at most one thread, hence at most one execution of process_video, is in
\* flight at any time, and a call of start_processing while processing is true
\* starts no thread and changes no field, widget or file.
C4_SingleWorker ==
    /\ [](Cardinality(Live) <= 1)
    /\ [][(processing /\ StartProcessing) => UNCHANGED guistate]_vars

\* start_processing was called, and ignored, while a run was in its frame loop
C4_Witness ==
    /\ processing
    /\ last_op = "busy"
    /\ \E r \in RunIds : run[r].pc = "loop" /\ run[r].frame_count > 0

\* process_video has been called in run r with the paths of its record
Called(r) == run[r].pc \notin {"none", "thread_start"}

\* out is the file named out.mp4 in the directory of the path in: in that
\* directory when in has a directory part, in "." when it has none
IsOutMp4Beside(out, in) ==
    /\ out # <<>>
    /\ out[Len(out)] = "out.mp4"
    /\ IF LastSep(in) = 0
       THEN out = <<".", "/", "out.mp4">>
       ELSE Dirname(out) = Dirname(in)

\* C5, as stated: in either front end the output path given to process_video is
\* out.mp4 in the directory of the input path given to it.
C5_OutputBesideInput ==
    \A r \in RunIds :
        Called(r) => IsOutMp4Beside(run[r].output_path, run[r].video_path)

\* C6: a missing input file is reported and skipped.  Console: once "file not
\* found" is printed process_video has not been called, and it is only ever
\* called on a path that exists; a call of main on a missing path prints the
\* message.  GUI: start_processing with no file selected or with a selected file
\* that does not exist shows an error and leaves the threads, processing, the
\* callback queue and the files as they are.
C6_MissingInputSkipped ==
    /\ [](mode = "cli" =>
            /\ "not_found" \in printed => \A r \in RunIds : run[r] = NoRun
            /\ \A r \in RunIds : Called(r) => run[r].video_path \in files)
    /\ [][(CLIMain /\ "not_found" \notin printed') =>
            (run'[1].pc = "start" /\ run'[1].video_path \in files)]_vars
    /\ [][(CLIMain /\ "not_found" \in printed') => UNCHANGED <<run, files>>]_vars
    /\ [][(StartProcessing /\ (input_file = NoPath \/ input_file \notin files)) =>
            /\ dialog' \in {"error_no_file", "error_not_found"}
            /\ UNCHANGED <<run, processing, process_btn, afterq, files>>]_vars

\* the GUI refused a selected file that does not exist, with nothing started
C6_Witness ==
    /\ mode = "gui"
    /\ last_op = "rejected"
    /\ dialog = "error_not_found"
    /\ input_file # NoPath
    /\ input_file \notin files
    /\ ~processing
    /\ \A r \in RunIds : run[r] = NoRun

\* C7: in every run the encoder is invoked at most once, and then the frame loop
\* is over and capture and writer are released; once it has been invoked no
\* frame is read or written; the temporary file is removed, or its removal
\* tried, only when the encoder has exited 0 or a fallback copy has finished.
C7_EncoderAfterLoop ==
    /\ [](\A r \in RunIds :
            /\ run[r].encoder_calls <= 1
            /\ run[r].encoder_calls > 0 =>
                  /\ run[r].cap = "released"
                  /\ run[r].out = "released"
                  /\ run[r].pc \notin {"start", "loop", "release"}
            /\ (run[r].unlink_tried \/ run[r].temp = "removed") =>
                  (run[r].enc = "rc0" \/ run[r].copies >= 1))
    /\ [][\A r \in RunIds :
            (run[r].encoder_calls > 0 /\ run'[r].encoder_calls > 0) =>
                run'[r].frame_count = run[r].frame_count]_vars

\* a run wrote a frame, invoked the encoder once and removed the temporary file
C7_Witness ==
    \E r \in RunIds :
        /\ run[r].pc = "returned"
        /\ run[r].frame_count > 0
        /\ run[r].encoder_calls = 1
        /\ run[r].temp = "removed"

\* C8: when detect_and_draw_esp returns, a box and label have been drawn for a
\* detection exactly when its confidence is greater than 0.5, once each, in
\* detection order and with the label of its class, and the returned list holds
\* every detection, in detection order, with its class name and confidence.
C8_ThresholdAndList ==
    det_pc = "returned" =>
        /\ \A i \in 1..Len(boxes) :
              (\E k \in 1..Len(drawn) : drawn[k].box = i)
                  <=> boxes[i].conf > confidence_threshold
        /\ \A k, l \in 1..Len(drawn) :
              /\ k < l => drawn[k].box < drawn[l].box
              /\ drawn[k].label = TitleOf(ModelNames[boxes[drawn[k].box].cls])
        /\ Len(detected_classes) = Len(boxes)
        /\ \A i \in 1..Len(boxes) :
              detected_classes[i] =
                  [name |-> ModelNames[boxes[i].cls], conf |-> boxes[i].conf]

\* a detection of exactly 0.5 was listed and not drawn, one of 0.51 was drawn
C8_Witness ==
    /\ det_pc = "returned"
    /\ Len(boxes) = 2
    /\ boxes[1].conf = confidence_threshold
    /\ boxes[2].conf = confidence_threshold + 1
    /\ Len(detected_classes) = 2
    /\ Len(drawn) = 1
    /\ drawn[1].box = 2

\* C9, as stated: the paths a run uses are the paths selected when
\* start_processing accepted it, and the result path processing_finished
\* reports is the accepted output path.
C9_PathsFixedAtAccept ==
    /\ \A r \in RunIds :
          Called(r) => /\ run[r].video_path = run[r].acc_in
                       /\ run[r].output_path = run[r].acc_out
    /\ last_report # NoReport => last_report.shown = last_report.acc_out

\* C10: in the GUI, while processing is true exactly one completion is outstanding (a live
\* thread or one queued callback) and the start button is disabled; while it is
\* false none is and the button is enabled; and processing, once true, becomes
\* false again through processing_finished or processing_error.
C10_CompletionDelivered ==
    /\ [](mode = "gui" =>
            /\ Cardinality(Live) + Len(afterq) = (IF processing THEN 1 ELSE 0)
            /\ process_btn = (IF processing THEN "disabled" ELSE "normal"))
    /\ (processing ~>
           /\ ~processing
           /\ process_btn = "normal"
           /\ dialog \in {"info_done", "error_processing"})

\* a run that raised was reported by processing_error and the GUI is ready again
C10_Witness ==
    /\ mode = "gui"
    /\ ~processing
    /\ process_btn = "normal"
    /\ status = "error"
    /\ dialog = "error_processing"
    /\ afterq = <<>>
    /\ Live = {}

\* C11, as stated: in the frame loop the progress has been reported once for
\* every positive multiple of ProgressEvery among the frames written so far and
\* at no other count; each reported value is frames written * 100 / total
\* frames, lies between 0 and 100 and is no smaller than the one before it; and
\* computing it never raises, whatever frame count the capture reported.
C11_ProgressInRange ==
    prog_pc # "off" =>
        /\ prog_pc # "raised"
        /\ Len(reports) = frame_count \div ProgressEvery
        /\ \A k \in 1..Len(reports) :
              /\ reports[k].at = k * ProgressEvery
              /\ reports[k].num = reports[k].at * 100
              /\ reports[k].den = total_frames
              /\ reports[k].den > 0
              /\ 0 <= reports[k].num
              /\ reports[k].num <= 100 * reports[k].den
        /\ \A k, l \in 1..Len(reports) :
              k < l => reports[k].num * reports[l].den
                           <= reports[l].num * reports[k].den

====
